---- MODULE Spec2Model ----
(***************************************************************************)
(* The plugin provider of external-dns: the client-side proxy              *)
(* (PluginProvider) that turns each provider call into one HTTP round trip *)
(* and the server-side adapter that answers the negotiation request.       *)
(*                                                                         *)
(* Two revisions of the proxy are in the source tree.  The one with the    *)
(* negotiation handshake and the failure gauges (src/unnamed/part_001) is  *)
(* modelled by the definitions with the source's names and runs under      *)
(* Spec; the one in src/provider/plugin/plugin.go is modelled by the       *)
(* definitions with the suffix _plugin_go and runs under SpecPluginGo.     *)
(***************************************************************************)
EXTENDS Integers, Sequences, FiniteSets, TLC

VARIABLES
    p,                               \* the *PluginProvider the caller holds, or NoProxy
    recordsErrorsGauge,              \* the four process-wide gauges
    applyChangesErrorsGauge,
    propertyValuesEqualErrorsGauge,
    adjustEndpointsErrorsGauge,
    handshake,                       \* headers answered to the negotiation request of p's construction
    last,                            \* the last completed call: arguments, response, results, requests sent
    prev,                            \* operation and error of the call before the last one
    ncalls,                          \* number of calls made so far
    srv,                             \* the adapter's last handled request and its response
    inflight,                        \* the call whose request is on the wire, and its context
    start,                           \* the run of StartHTTPApi or StartAWSPluginProvider
    running                          \* the calls running concurrently on p

vars == <<p, recordsErrorsGauge, applyChangesErrorsGauge, propertyValuesEqualErrorsGauge,
          adjustEndpointsErrorsGauge, handshake, last, prev, ncalls, srv, inflight,
          start, running>>

gauges == <<recordsErrorsGauge, applyChangesErrorsGauge, propertyValuesEqualErrorsGauge,
            adjustEndpointsErrorsGauge>>

(***************************************************************************)
(* Bounds                                                                  *)
(***************************************************************************)
MaxCalls == 3

(***************************************************************************)
(* Program constants                                                       *)
(***************************************************************************)
mediaTypeFormatAndVersion == "application/external.dns.plugin+json;version=1"
contentTypeHeader == "Content-Type"
acceptHeader == "Accept"
varyHeader == "Vary"
StatusOK == 200
StatusBadRequest == 400
StatusInternalServerError == 500

(***************************************************************************)
(* Go values: endpoints, slices of endpoints, change-sets                  *)
(***************************************************************************)
DNSNames == {"a.example.com", "b.example.com"}

\* endpoint.Endpoint, reduced to the field the tests use
Endpoint(n) == [DNSName |-> n]

EpA == Endpoint("a.example.com")
EpB == Endpoint("b.example.com")

\* a Go slice []*endpoint.Endpoint: nil, or a (possibly empty) sequence
Slice(s) == [isNil |-> FALSE, elems |-> s]
NilSlice == [isNil |-> TRUE, elems |-> <<>>]

EndpointLists == {<<>>, <<EpA>>, <<EpA, EpB>>, <<EpB, EpA>>}
Slices == {NilSlice} \cup {Slice(s) : s \in EndpointLists}

\* *plan.Changes: nil (as the test passes), or a change-set
NilChanges == [isNil |-> TRUE, Create |-> <<>>, UpdateOld |-> <<>>, UpdateNew |-> <<>>, Delete |-> <<>>]
Changes(c, uo, un, d) == [isNil |-> FALSE, Create |-> c, UpdateOld |-> uo, UpdateNew |-> un, Delete |-> d]
ChangesInputs == {NilChanges, Changes(<<EpA>>, <<EpB>>, <<EpB>>, <<>>)}

PropertyNames == {"ttl"}
PropertyValues == {"300", "600"}

PropertyValuesEqualsRequest(name, previous, current) ==
    [Name |-> name, Previous |-> previous, Current |-> current]

NoPve == PropertyValuesEqualsRequest("", "", "")

(***************************************************************************)
(* JSON documents (encoding/json).  A document is a record with one shape  *)
(* for every kind:                                                         *)
(*   "empty"      zero bytes                                               *)
(*   "malformed"  bytes that are not JSON                                  *)
(*   "null"       the literal null                                         *)
(*   "array"      an array of endpoint objects {"dnsName": ...}            *)
(*   "equals"     an object {"equals": eq}                                 *)
(*   "object"     an object {} (no known key)                              *)
(*   "pve"        an object {"name":..,"previous":..,"current":..}         *)
(*   "changes"    an object {"Create":..,"UpdateOld":..,...}               *)
(***************************************************************************)
Doc(kind, arr, eq, pve, chg) == [kind |-> kind, arr |-> arr, eq |-> eq, pve |-> pve, chg |-> chg]

JEmpty == Doc("empty", <<>>, FALSE, NoPve, NilChanges)
JMalformed == Doc("malformed", <<>>, FALSE, NoPve, NilChanges)
JNull == Doc("null", <<>>, FALSE, NoPve, NilChanges)
JObject == Doc("object", <<>>, FALSE, NoPve, NilChanges)
JEquals(b) == Doc("equals", <<>>, b, NoPve, NilChanges)
JArray(w) == Doc("array", w, FALSE, NoPve, NilChanges)
JPve(r) == Doc("pve", <<>>, FALSE, r, NilChanges)
JChanges(c) == Doc("changes", <<>>, FALSE, NoPve, c)

\* the wire form of one endpoint: the object {"dnsName": n}
WireEndpoint(e) == [dnsName |-> e.DNSName]
UnwireEndpoint(w) == [DNSName |-> w.dnsName]

\* the elements of an array are encoded and decoded one by one, in order
WireEndpoints(s) == [i \in 1..Len(s) |-> WireEndpoint(s[i])]
UnwireEndpoints(w) == [i \in 1..Len(w) |-> UnwireEndpoint(w[i])]

\* json.Marshal of a []*endpoint.Endpoint: a nil slice encodes as null
MarshalEndpoints(e) ==
    IF e.isNil THEN JNull ELSE JArray(WireEndpoints(e.elems))

\* json.Marshal of a *plan.Changes: a nil pointer encodes as null
MarshalChanges(c) ==
    IF c.isNil THEN JNull ELSE JChanges(c)

\* json.Marshal of a *PropertyValuesEqualsRequest
MarshalPve(r) == JPve(r)

\* json.Unmarshal(b, &endpoints) with endpoints == []*endpoint.Endpoint{}:
\* an array decodes element by element, null sets the slice to nil without
\* an error, everything else is an error
UnmarshalEndpoints(b) ==
    CASE b.kind = "array" -> [err |-> FALSE, val |-> Slice(UnwireEndpoints(b.arr))]
      [] b.kind = "null"  -> [err |-> FALSE, val |-> NilSlice]
      [] OTHER            -> [err |-> TRUE, val |-> Slice(<<>>)]

\* json.Unmarshal(b, &r) with r == PropertiesValuesEqualsResponse{}: an
\* object sets Equals from its "equals" key when it has one, null leaves r
\* alone, everything else is an error
UnmarshalEqualsResponse(b) ==
    CASE b.kind = "equals" -> [err |-> FALSE, Equals |-> b.eq]
      [] b.kind \in {"object", "pve", "changes", "null"} -> [err |-> FALSE, Equals |-> FALSE]
      [] OTHER -> [err |-> TRUE, Equals |-> FALSE]

(***************************************************************************)
(* URLs (net/url) and HTTP messages (net/http)                             *)
(***************************************************************************)
GoodURL == "http://localhost:8888"
BadURL == ":8888"
URLStrings == {GoodURL, BadURL}

\* a parsed *url.URL; Path is the sequence of path segments
NoURL == [Scheme |-> "", Host |-> "", Path |-> <<>>]

\* url.Parse: ":8888" has no protocol scheme and is rejected
ParseURL(u) ==
    IF u = GoodURL
    THEN [err |-> FALSE, url |-> [Scheme |-> "http", Host |-> "localhost:8888", Path |-> <<>>]]
    ELSE [err |-> TRUE, url |-> NoURL]

\* url.JoinPath(base.String(), elem): re-parses the text of a URL that
\* url.Parse produced, which succeeds, and appends the element to its path
JoinPath(base, elem) ==
    [err |-> FALSE, url |-> [base EXCEPT !.Path = Append(base.Path, elem)]]

\* http.NewRequest: an *http.Request with its method, URL, Accept header and body
NewRequest(method, url, accept, body) ==
    [Method |-> method, URL |-> url, Accept |-> accept, Body |-> body]

\* http.Header of a response: the values of the two headers the proxy reads
Header(vary, ctype) == [Vary |-> vary, ContentType |-> ctype]

HeaderGet(h, k) ==
    CASE k = varyHeader -> h.Vary
      [] k = contentTypeHeader -> h.ContentType
      [] OTHER -> ""

\* what client.Do returns: a transport error, or a response with its status,
\* headers and body; BodyErr says that reading the body fails
Response(status, header, body, bodyErr) ==
    [err |-> FALSE, StatusCode |-> status, Header |-> header, Body |-> body, BodyErr |-> bodyErr]

TransportError ==
    [err |-> TRUE, StatusCode |-> 0, Header |-> Header("", ""), Body |-> JEmpty, BodyErr |-> FALSE]

NoResponse ==
    [err |-> FALSE, StatusCode |-> 0, Header |-> Header("", ""), Body |-> JEmpty, BodyErr |-> FALSE]

\* the bodies a server may answer with
ResponseBodies ==
    {JEmpty, JMalformed, JNull, JObject, JEquals(TRUE), JEquals(FALSE)}
        \cup {JArray(WireEndpoints(s)) : s \in EndpointLists}

Statuses == {StatusOK, StatusInternalServerError}

JSONHeader == Header("", "application/json")

\* the outcomes of client.Do for a business request: a transport error, or a
\* response of either status whose body reads as one of the bodies or fails
\* to read
BusinessResponses ==
    {TransportError}
        \cup {Response(st, JSONHeader, b, FALSE) : st \in Statuses, b \in ResponseBodies}
        \cup {Response(st, JSONHeader, JEmpty, TRUE) : st \in Statuses}

\* the outcomes of client.Do for the negotiation request: a transport
\* error, or a response with or without each of the negotiation headers
\* ("text/plain; charset=utf-8" is what net/http sniffs for a body written
\* without a Content-Type)
NegotiationResponses ==
    {TransportError}
        \cup {Response(st, Header(v, c), b, FALSE) :
                 st \in Statuses,
                 v \in {contentTypeHeader, ""},
                 c \in {mediaTypeFormatAndVersion, "text/plain; charset=utf-8"},
                 b \in {JEmpty, JArray(<<WireEndpoint(EpA)>>)}}

(***************************************************************************)
(* The proxy with negotiation and gauges (src/unnamed/part_001)            *)
(***************************************************************************)
NoProxy == [isNil |-> TRUE, client |-> "", remoteServerURL |-> NoURL]
PluginProvider(client, url) == [isNil |-> FALSE, client |-> client, remoteServerURL |-> url]

NoHandshake == [done |-> FALSE, vary |-> "", contentType |-> ""]

\* a gauge that is set to one where it should be raised by one
Inc_SetToOne(g) == 1

\* prometheus Gauge.Inc: an atomic add of one
Inc(g) == g + 1

\* NewPluginProvider without the check of the Content-Type header
NewPluginProvider_NoContentTypeCheck(u, resp, gauge) ==
    LET parsedURL == ParseURL(u)
        req == NewRequest("GET", parsedURL.url, mediaTypeFormatAndVersion, JEmpty)
        vary == HeaderGet(resp.Header, varyHeader)
    IN  IF parsedURL.err
        THEN [p |-> NoProxy, err |-> TRUE, gauge |-> gauge, reqs |-> <<>>]
        ELSE IF resp.err
        THEN [p |-> NoProxy, err |-> TRUE, gauge |-> Inc(gauge), reqs |-> <<req>>]
        ELSE IF vary # contentTypeHeader
        THEN [p |-> NoProxy, err |-> TRUE, gauge |-> gauge, reqs |-> <<req>>]
        ELSE [p |-> PluginProvider("http.Client", parsedURL.url), err |-> FALSE,
              gauge |-> gauge, reqs |-> <<req>>]

\* NewPluginProvider without the check of the Vary header
NewPluginProvider_NoVaryCheck(u, resp, gauge) ==
    LET parsedURL == ParseURL(u)
        req == NewRequest("GET", parsedURL.url, mediaTypeFormatAndVersion, JEmpty)
        contentType == HeaderGet(resp.Header, contentTypeHeader)
    IN  IF parsedURL.err
        THEN [p |-> NoProxy, err |-> TRUE, gauge |-> gauge, reqs |-> <<>>]
        ELSE IF resp.err
        THEN [p |-> NoProxy, err |-> TRUE, gauge |-> Inc(gauge), reqs |-> <<req>>]
        ELSE IF contentType # mediaTypeFormatAndVersion
        THEN [p |-> NoProxy, err |-> TRUE, gauge |-> gauge, reqs |-> <<req>>]
        ELSE [p |-> PluginProvider("http.Client", parsedURL.url), err |-> FALSE,
              gauge |-> gauge, reqs |-> <<req>>]

\* NewPluginProvider(u), where resp is what client.Do answers to the
\* negotiation request and gauge is recordsErrorsGauge.  reqs are the
\* requests handed to client.Do.
NewPluginProvider(u, resp, gauge) ==
    LET parsedURL == ParseURL(u)
        req == NewRequest("GET", parsedURL.url, mediaTypeFormatAndVersion, JEmpty)
        vary == HeaderGet(resp.Header, varyHeader)
        contentType == HeaderGet(resp.Header, contentTypeHeader)
    IN  IF parsedURL.err
        THEN [p |-> NoProxy, err |-> TRUE, gauge |-> gauge, reqs |-> <<>>]
        ELSE IF resp.err
        THEN [p |-> NoProxy, err |-> TRUE, gauge |-> Inc(gauge), reqs |-> <<req>>]
        ELSE IF vary # contentTypeHeader
        THEN [p |-> NoProxy, err |-> TRUE, gauge |-> gauge, reqs |-> <<req>>]
        ELSE IF contentType # mediaTypeFormatAndVersion
        THEN [p |-> NoProxy, err |-> TRUE, gauge |-> gauge, reqs |-> <<req>>]
        ELSE [p |-> PluginProvider("http.Client", parsedURL.url), err |-> FALSE,
              gauge |-> gauge, reqs |-> <<req>>]

\* Records refusing to talk to a server that failed before
Records_StickyFailure(pp, resp, gauge) ==
    LET u == JoinPath(pp.remoteServerURL, "records")
        req == NewRequest("GET", u.url, "", JEmpty)
        d == UnmarshalEndpoints(resp.Body)
    IN  IF gauge > 0 \/ resp.err \/ resp.StatusCode # StatusOK \/ resp.BodyErr \/ d.err
        THEN [endpoints |-> NilSlice, err |-> TRUE, gauge |-> Inc(gauge), reqs |-> <<req>>]
        ELSE [endpoints |-> d.val, err |-> FALSE, gauge |-> gauge, reqs |-> <<req>>]

\* Records sending the request a second time after a status other than 200
Records_Retry(pp, resp, gauge) ==
    LET u == JoinPath(pp.remoteServerURL, "records")
        req == NewRequest("GET", u.url, "", JEmpty)
        d == UnmarshalEndpoints(resp.Body)
    IN  IF resp.err
        THEN [endpoints |-> NilSlice, err |-> TRUE, gauge |-> Inc(gauge), reqs |-> <<req>>]
        ELSE IF resp.StatusCode # StatusOK
        THEN [endpoints |-> NilSlice, err |-> TRUE, gauge |-> Inc(gauge), reqs |-> <<req, req>>]
        ELSE IF resp.BodyErr \/ d.err
        THEN [endpoints |-> NilSlice, err |-> TRUE, gauge |-> Inc(gauge), reqs |-> <<req>>]
        ELSE [endpoints |-> d.val, err |-> FALSE, gauge |-> gauge, reqs |-> <<req>>]

\* PluginProvider.Records, where gauge is recordsErrorsGauge
Records(pp, resp, gauge) ==
    LET u == JoinPath(pp.remoteServerURL, "records")
        req == NewRequest("GET", u.url, "", JEmpty)
        d == UnmarshalEndpoints(resp.Body)
    IN  IF u.err
        THEN [endpoints |-> NilSlice, err |-> TRUE, gauge |-> gauge, reqs |-> <<>>]
        ELSE IF resp.err
        THEN [endpoints |-> NilSlice, err |-> TRUE, gauge |-> Inc(gauge), reqs |-> <<req>>]
        ELSE IF resp.StatusCode # StatusOK
        THEN [endpoints |-> NilSlice, err |-> TRUE, gauge |-> Inc(gauge), reqs |-> <<req>>]
        ELSE IF resp.BodyErr
        THEN [endpoints |-> NilSlice, err |-> TRUE, gauge |-> Inc(gauge), reqs |-> <<req>>]
        ELSE IF d.err
        THEN [endpoints |-> NilSlice, err |-> TRUE, gauge |-> Inc(gauge), reqs |-> <<req>>]
        ELSE [endpoints |-> d.val, err |-> FALSE, gauge |-> gauge, reqs |-> <<req>>]

\* ApplyChanges without the check of the status
ApplyChanges_IgnoresStatus(pp, changes, resp, gauge) ==
    LET u == JoinPath(pp.remoteServerURL, "records")
        b == MarshalChanges(changes)
        req == NewRequest("POST", u.url, "", b)
    IN  IF resp.err
        THEN [err |-> TRUE, gauge |-> Inc(gauge), reqs |-> <<req>>]
        ELSE [err |-> FALSE, gauge |-> gauge, reqs |-> <<req>>]

\* PluginProvider.ApplyChanges, where gauge is applyChangesErrorsGauge
ApplyChanges(pp, changes, resp, gauge) ==
    LET u == JoinPath(pp.remoteServerURL, "records")
        b == MarshalChanges(changes)
        req == NewRequest("POST", u.url, "", b)
    IN  IF u.err
        THEN [err |-> TRUE, gauge |-> gauge, reqs |-> <<>>]
        ELSE IF resp.err
        THEN [err |-> TRUE, gauge |-> Inc(gauge), reqs |-> <<req>>]
        ELSE IF resp.StatusCode # StatusOK
        THEN [err |-> TRUE, gauge |-> Inc(gauge), reqs |-> <<req>>]
        ELSE [err |-> FALSE, gauge |-> gauge, reqs |-> <<req>>]

\* PropertyValuesEqual without the check of the status
PropertyValuesEqual_NoStatusCheck(pp, name, previous, current, resp, gauge) ==
    LET u == JoinPath(pp.remoteServerURL, "propertiesvaluesequal")
        b == MarshalPve(PropertyValuesEqualsRequest(name, previous, current))
        req == NewRequest("GET", u.url, "", b)
        r == UnmarshalEqualsResponse(resp.Body)
    IN  IF resp.err
        THEN [equals |-> (previous = current), gauge |-> Inc(gauge), reqs |-> <<req>>]
        ELSE IF resp.BodyErr \/ r.err
        THEN [equals |-> (previous = current), gauge |-> Inc(gauge), reqs |-> <<req>>]
        ELSE [equals |-> r.Equals, gauge |-> gauge, reqs |-> <<req>>]

\* PluginProvider.PropertyValuesEqual, where gauge is propertyValuesEqualErrorsGauge
PropertyValuesEqual(pp, name, previous, current, resp, gauge) ==
    LET u == JoinPath(pp.remoteServerURL, "propertiesvaluesequal")
        b == MarshalPve(PropertyValuesEqualsRequest(name, previous, current))
        req == NewRequest("GET", u.url, "", b)
        r == UnmarshalEqualsResponse(resp.Body)
    IN  IF u.err
        THEN [equals |-> (previous = current), gauge |-> gauge, reqs |-> <<>>]
        ELSE IF resp.err
        THEN [equals |-> (previous = current), gauge |-> Inc(gauge), reqs |-> <<req>>]
        ELSE IF resp.StatusCode # StatusOK
        THEN [equals |-> (previous = current), gauge |-> Inc(gauge), reqs |-> <<req>>]
        ELSE IF resp.BodyErr
        THEN [equals |-> (previous = current), gauge |-> Inc(gauge), reqs |-> <<req>>]
        ELSE IF r.err
        THEN [equals |-> (previous = current), gauge |-> Inc(gauge), reqs |-> <<req>>]
        ELSE [equals |-> r.Equals, gauge |-> gauge, reqs |-> <<req>>]

\* AdjustEndpoints that does not count a body that fails to decode
AdjustEndpoints_NoIncOnDecodeError(pp, e, resp, gauge) ==
    LET u == JoinPath(pp.remoteServerURL, "adjustendpoints")
        b == MarshalEndpoints(e)
        req == NewRequest("GET", u.url, "", b)
        d == UnmarshalEndpoints(resp.Body)
    IN  IF resp.err \/ resp.StatusCode # StatusOK \/ resp.BodyErr
        THEN [endpoints |-> e, gauge |-> Inc(gauge), reqs |-> <<req>>]
        ELSE IF d.err
        THEN [endpoints |-> e, gauge |-> gauge, reqs |-> <<req>>]
        ELSE [endpoints |-> d.val, gauge |-> gauge, reqs |-> <<req>>]

\* PluginProvider.AdjustEndpoints, where gauge is adjustEndpointsErrorsGauge
AdjustEndpoints(pp, e, resp, gauge) ==
    LET u == JoinPath(pp.remoteServerURL, "adjustendpoints")
        b == MarshalEndpoints(e)
        req == NewRequest("GET", u.url, "", b)
        d == UnmarshalEndpoints(resp.Body)
    IN  IF u.err
        THEN [endpoints |-> e, gauge |-> gauge, reqs |-> <<>>]
        ELSE IF resp.err
        THEN [endpoints |-> e, gauge |-> Inc(gauge), reqs |-> <<req>>]
        ELSE IF resp.StatusCode # StatusOK
        THEN [endpoints |-> e, gauge |-> Inc(gauge), reqs |-> <<req>>]
        ELSE IF resp.BodyErr
        THEN [endpoints |-> e, gauge |-> Inc(gauge), reqs |-> <<req>>]
        ELSE IF d.err
        THEN [endpoints |-> e, gauge |-> Inc(gauge), reqs |-> <<req>>]
        ELSE [endpoints |-> d.val, gauge |-> gauge, reqs |-> <<req>>]

(***************************************************************************)
(* The proxy without negotiation and gauges (src/provider/plugin/plugin.go)*)
(***************************************************************************)
NewPluginProvider_plugin_go(u) ==
    LET parsedURL == ParseURL(u)
    IN  IF parsedURL.err
        THEN [p |-> NoProxy, err |-> TRUE, reqs |-> <<>>]
        ELSE [p |-> PluginProvider("http.Client", parsedURL.url), err |-> FALSE, reqs |-> <<>>]

Records_plugin_go(pp, resp) ==
    LET u == JoinPath(pp.remoteServerURL, "records")
        req == NewRequest("GET", u.url, "", JEmpty)
        d == UnmarshalEndpoints(resp.Body)
    IN  IF u.err
        THEN [endpoints |-> NilSlice, err |-> TRUE, reqs |-> <<>>]
        ELSE IF resp.err
        THEN [endpoints |-> NilSlice, err |-> TRUE, reqs |-> <<req>>]
        ELSE IF resp.BodyErr
        THEN [endpoints |-> NilSlice, err |-> TRUE, reqs |-> <<req>>]
        ELSE IF d.err
        THEN [endpoints |-> NilSlice, err |-> TRUE, reqs |-> <<req>>]
        ELSE [endpoints |-> d.val, err |-> FALSE, reqs |-> <<req>>]

ApplyChanges_plugin_go(pp, changes, resp) ==
    LET u == JoinPath(pp.remoteServerURL, "records")
        b == MarshalChanges(changes)
        req == NewRequest("POST", u.url, "", b)
    IN  IF u.err
        THEN [err |-> TRUE, reqs |-> <<>>]
        ELSE IF resp.err
        THEN [err |-> TRUE, reqs |-> <<req>>]
        ELSE IF resp.StatusCode # StatusOK
        THEN [err |-> TRUE, reqs |-> <<req>>]
        ELSE [err |-> FALSE, reqs |-> <<req>>]

PropertyValuesEqual_plugin_go(pp, name, previous, current, resp) ==
    LET u == JoinPath(pp.remoteServerURL, "propertiesvaluesequal")
        b == MarshalPve(PropertyValuesEqualsRequest(name, previous, current))
        req == NewRequest("GET", u.url, "", b)
        r == UnmarshalEqualsResponse(resp.Body)
    IN  IF u.err
        THEN [equals |-> (previous = current), reqs |-> <<>>]
        ELSE IF resp.err
        THEN [equals |-> (previous = current), reqs |-> <<req>>]
        ELSE IF resp.StatusCode # StatusOK
        THEN [equals |-> (previous = current), reqs |-> <<req>>]
        ELSE IF resp.BodyErr
        THEN [equals |-> (previous = current), reqs |-> <<req>>]
        ELSE IF r.err
        THEN [equals |-> (previous = current), reqs |-> <<req>>]
        ELSE [equals |-> r.Equals, reqs |-> <<req>>]

AdjustEndpoints_plugin_go(pp, e, resp) ==
    LET u == JoinPath(pp.remoteServerURL, "adjustendpoints")
        b == MarshalEndpoints(e)
        req == NewRequest("POST", u.url, "", b)
        d == UnmarshalEndpoints(resp.Body)
    IN  IF u.err
        THEN [endpoints |-> e, reqs |-> <<>>]
        ELSE IF resp.err
        THEN [endpoints |-> e, reqs |-> <<req>>]
        ELSE IF resp.BodyErr
        THEN [endpoints |-> e, reqs |-> <<req>>]
        ELSE IF d.err
        THEN [endpoints |-> e, reqs |-> <<req>>]
        ELSE [endpoints |-> d.val, reqs |-> <<req>>]

(***************************************************************************)
(* The state machine of the proxy                                          *)
(***************************************************************************)
\* endpoint.DomainFilter: the domains to include and to exclude
DomainFilter(filters, exclude) == [isNil |-> FALSE, Filters |-> filters, exclude |-> exclude]

\* no endpoint.DomainFilterInterface value
NoFilter == [isNil |-> TRUE, Filters |-> <<>>, exclude |-> <<>>]

\* GetDomainFilter asking the server for its filter
GetDomainFilter_FromServer(pp) ==
    LET u == JoinPath(pp.remoteServerURL, "domainfilter")
    IN  [filter |-> DomainFilter(<<>>, <<>>), reqs |-> <<NewRequest("GET", u.url, "", JEmpty)>>]

\* PluginProvider.GetDomainFilter: the zero DomainFilter, no request
GetDomainFilter(pp) ==
    [filter |-> DomainFilter(<<>>, <<>>), reqs |-> <<>>]

BusinessOps == {"Records", "ApplyChanges", "PropertyValuesEqual", "AdjustEndpoints"}

\* the record of a completed call.  resp is the response the call received
\* (NoResponse when it sent no request); before holds the gauges at its start
Call(op, u, pve, e, changes, resp, reqs, proxy, err, equals, endpoints) ==
    [op |-> op, u |-> u, pve |-> pve, e |-> e, changes |-> changes,
     resp |-> IF reqs = <<>> THEN NoResponse ELSE resp,
     reqs |-> reqs, proxy |-> proxy, err |-> err, equals |-> equals,
     endpoints |-> endpoints, filter |-> NoFilter, before |-> gauges]

NoCall ==
    [op |-> "none", u |-> "", pve |-> NoPve, e |-> NilSlice, changes |-> NilChanges,
     resp |-> NoResponse, reqs |-> <<>>, proxy |-> FALSE, err |-> FALSE, equals |-> FALSE,
     endpoints |-> NilSlice, filter |-> NoFilter, before |-> <<0, 0, 0, 0>>]

\* what is remembered of the call before the last one
Summary(c) == [op |-> c.op, err |-> c.err]

\* the wrapped provider as one request sees it: what its Records,
\* ApplyChanges, PropertyValuesEqual and AdjustEndpoints return
Provider(records, recordsErr, applyErr, equals, adjusted) ==
    [records |-> records, recordsErr |-> recordsErr, applyErr |-> applyErr,
     equals |-> equals, adjusted |-> adjusted]

DefaultProvider == Provider(NilSlice, FALSE, FALSE, FALSE, NilSlice)

NoSrv ==
    [handler |-> "none", server |-> "none", Method |-> "", Path |-> <<>>, Body |-> JEmpty,
     prov |-> DefaultProvider, again |-> DefaultProvider, resp |-> NoResponse,
     invoked |-> <<>>]

\* no call is waiting for client.Do
NoFlight == [state |-> "idle", op |-> "none", changes |-> NilChanges, cancelled |-> FALSE]

\* how often the server process is started
MaxStarts == 2

\* no start function has been called.  chan is the startedChan argument,
\* observer whether a goroutine receives from it, portFree whether port 8888
\* is free, config whether NewAWSProvider accepts the configuration, queued
\* the number of signals in the buffer of a buffered channel
NotStarted ==
    [fn |-> "none", pc |-> "idle", chan |-> "nil", observer |-> FALSE, portFree |-> FALSE,
     config |-> FALSE, bound |-> FALSE, bindFailed |-> FALSE, sent |-> FALSE, queued |-> 0,
     received |-> FALSE, starts |-> 0]

\* the goroutines that call the proxy concurrently
Threads == {1, 2, 3}

\* a goroutine that is not inside a call.  raced tells whether another call
\* was inside client.Do when this one returned from it
IdleThread == [pc |-> "idle", call |-> NoCall, raced |-> FALSE]
NoThreads == [t \in Threads |-> IdleThread]

Init ==
    /\ p = NoProxy
    /\ recordsErrorsGauge = 0
    /\ applyChangesErrorsGauge = 0
    /\ propertyValuesEqualErrorsGauge = 0
    /\ adjustEndpointsErrorsGauge = 0
    /\ handshake = NoHandshake
    /\ last = NoCall
    /\ prev = Summary(NoCall)
    /\ ncalls = 0
    /\ srv = NoSrv
    /\ inflight = NoFlight
    /\ start = NotStarted
    /\ running = NoThreads

\* provider, err := NewPluginProvider(u)
CallNewPluginProvider ==
    /\ ncalls < MaxCalls
    /\ p.isNil
    /\ \E u \in URLStrings, resp \in NegotiationResponses :
         LET r == NewPluginProvider(u, resp, recordsErrorsGauge)
         IN  /\ p' = r.p
             /\ recordsErrorsGauge' = r.gauge
             /\ handshake' = [done |-> r.reqs # <<>> /\ ~resp.err,
                              vary |-> IF r.reqs # <<>> THEN resp.Header.Vary ELSE "",
                              contentType |-> IF r.reqs # <<>> THEN resp.Header.ContentType ELSE ""]
             /\ last' = Call("NewPluginProvider", u, NoPve, NilSlice, NilChanges, resp, r.reqs,
                             ~r.p.isNil, r.err, FALSE, NilSlice)
    /\ ncalls' = ncalls + 1
    /\ prev' = Summary(last)
    /\ UNCHANGED <<applyChangesErrorsGauge, propertyValuesEqualErrorsGauge,
                   adjustEndpointsErrorsGauge, srv, inflight,
                   start, running>>

\* endpoints, err := provider.Records(ctx)
CallRecords ==
    /\ ncalls < MaxCalls
    /\ ~p.isNil
    /\ \E resp \in BusinessResponses :
         LET r == Records(p, resp, recordsErrorsGauge)
         IN  /\ recordsErrorsGauge' = r.gauge
             /\ last' = Call("Records", "", NoPve, NilSlice, NilChanges, resp, r.reqs,
                             FALSE, r.err, FALSE, r.endpoints)
    /\ ncalls' = ncalls + 1
    /\ prev' = Summary(last)
    /\ UNCHANGED <<p, applyChangesErrorsGauge, propertyValuesEqualErrorsGauge,
                   adjustEndpointsErrorsGauge, handshake, srv, inflight,
                   start, running>>

\* err := provider.ApplyChanges(ctx, changes)
CallApplyChanges ==
    /\ ncalls < MaxCalls
    /\ ~p.isNil
    /\ \E changes \in ChangesInputs, resp \in BusinessResponses :
         LET r == ApplyChanges(p, changes, resp, applyChangesErrorsGauge)
         IN  /\ applyChangesErrorsGauge' = r.gauge
             /\ last' = Call("ApplyChanges", "", NoPve, NilSlice, changes, resp, r.reqs,
                             FALSE, r.err, FALSE, NilSlice)
    /\ ncalls' = ncalls + 1
    /\ prev' = Summary(last)
    /\ UNCHANGED <<p, recordsErrorsGauge, propertyValuesEqualErrorsGauge,
                   adjustEndpointsErrorsGauge, handshake, srv, inflight,
                   start, running>>

\* b := provider.PropertyValuesEqual(name, previous, current)
CallPropertyValuesEqual ==
    /\ ncalls < MaxCalls
    /\ ~p.isNil
    /\ \E name \in PropertyNames, previous \in PropertyValues, current \in PropertyValues,
          resp \in BusinessResponses :
         LET r == PropertyValuesEqual(p, name, previous, current, resp,
                                      propertyValuesEqualErrorsGauge)
         IN  /\ propertyValuesEqualErrorsGauge' = r.gauge
             /\ last' = Call("PropertyValuesEqual", "",
                             PropertyValuesEqualsRequest(name, previous, current),
                             NilSlice, NilChanges, resp, r.reqs, FALSE, FALSE, r.equals, NilSlice)
    /\ ncalls' = ncalls + 1
    /\ prev' = Summary(last)
    /\ UNCHANGED <<p, recordsErrorsGauge, applyChangesErrorsGauge,
                   adjustEndpointsErrorsGauge, handshake, srv, inflight,
                   start, running>>

\* out := provider.AdjustEndpoints(e)
CallAdjustEndpoints ==
    /\ ncalls < MaxCalls
    /\ ~p.isNil
    /\ \E e \in Slices, resp \in BusinessResponses :
         LET r == AdjustEndpoints(p, e, resp, adjustEndpointsErrorsGauge)
         IN  /\ adjustEndpointsErrorsGauge' = r.gauge
             /\ last' = Call("AdjustEndpoints", "", NoPve, e, NilChanges, resp, r.reqs,
                             FALSE, FALSE, FALSE, r.endpoints)
    /\ ncalls' = ncalls + 1
    /\ prev' = Summary(last)
    /\ UNCHANGED <<p, recordsErrorsGauge, applyChangesErrorsGauge,
                   propertyValuesEqualErrorsGauge, handshake, srv, inflight,
                   start, running>>

\* f := provider.GetDomainFilter()
CallGetDomainFilter ==
    /\ ncalls < MaxCalls
    /\ ~p.isNil
    /\ LET r == GetDomainFilter(p)
           c == Call("GetDomainFilter", "", NoPve, NilSlice, NilChanges, NoResponse, r.reqs,
                     FALSE, FALSE, FALSE, NilSlice)
       IN  last' = [c EXCEPT !.filter = r.filter]
    /\ ncalls' = ncalls + 1
    /\ prev' = Summary(last)
    /\ UNCHANGED <<p, gauges, handshake, srv, inflight,
                   start, running>>

Next ==
    \/ CallNewPluginProvider
    \/ CallRecords
    \/ CallApplyChanges
    \/ CallPropertyValuesEqual
    \/ CallAdjustEndpoints
    \/ CallGetDomainFilter

Spec == Init /\ [][Next]_vars

(***************************************************************************)
(* The state machine of the proxy of plugin.go: it has no gauges and sends *)
(* no negotiation request                                                  *)
(***************************************************************************)
CallNewPluginProvider_plugin_go ==
    /\ ncalls < MaxCalls
    /\ p.isNil
    /\ \E u \in URLStrings :
         LET r == NewPluginProvider_plugin_go(u)
         IN  /\ p' = r.p
             /\ last' = Call("NewPluginProvider", u, NoPve, NilSlice, NilChanges, NoResponse,
                             r.reqs, ~r.p.isNil, r.err, FALSE, NilSlice)
    /\ ncalls' = ncalls + 1
    /\ prev' = Summary(last)
    /\ UNCHANGED <<gauges, handshake, srv, inflight,
                   start, running>>

CallRecords_plugin_go ==
    /\ ncalls < MaxCalls
    /\ ~p.isNil
    /\ \E resp \in BusinessResponses :
         LET r == Records_plugin_go(p, resp)
         IN  last' = Call("Records", "", NoPve, NilSlice, NilChanges, resp, r.reqs,
                          FALSE, r.err, FALSE, r.endpoints)
    /\ ncalls' = ncalls + 1
    /\ prev' = Summary(last)
    /\ UNCHANGED <<p, gauges, handshake, srv, inflight,
                   start, running>>

CallApplyChanges_plugin_go ==
    /\ ncalls < MaxCalls
    /\ ~p.isNil
    /\ \E changes \in ChangesInputs, resp \in BusinessResponses :
         LET r == ApplyChanges_plugin_go(p, changes, resp)
         IN  last' = Call("ApplyChanges", "", NoPve, NilSlice, changes, resp, r.reqs,
                          FALSE, r.err, FALSE, NilSlice)
    /\ ncalls' = ncalls + 1
    /\ prev' = Summary(last)
    /\ UNCHANGED <<p, gauges, handshake, srv, inflight,
                   start, running>>

CallPropertyValuesEqual_plugin_go ==
    /\ ncalls < MaxCalls
    /\ ~p.isNil
    /\ \E name \in PropertyNames, previous \in PropertyValues, current \in PropertyValues,
          resp \in BusinessResponses :
         LET r == PropertyValuesEqual_plugin_go(p, name, previous, current, resp)
         IN  last' = Call("PropertyValuesEqual", "",
                          PropertyValuesEqualsRequest(name, previous, current),
                          NilSlice, NilChanges, resp, r.reqs, FALSE, FALSE, r.equals, NilSlice)
    /\ ncalls' = ncalls + 1
    /\ prev' = Summary(last)
    /\ UNCHANGED <<p, gauges, handshake, srv, inflight,
                   start, running>>

CallAdjustEndpoints_plugin_go ==
    /\ ncalls < MaxCalls
    /\ ~p.isNil
    /\ \E e \in Slices, resp \in BusinessResponses :
         LET r == AdjustEndpoints_plugin_go(p, e, resp)
         IN  last' = Call("AdjustEndpoints", "", NoPve, e, NilChanges, resp, r.reqs,
                          FALSE, FALSE, FALSE, r.endpoints)
    /\ ncalls' = ncalls + 1
    /\ prev' = Summary(last)
    /\ UNCHANGED <<p, gauges, handshake, srv, inflight,
                   start, running>>

NextPluginGo ==
    \/ CallNewPluginProvider_plugin_go
    \/ CallRecords_plugin_go
    \/ CallApplyChanges_plugin_go
    \/ CallPropertyValuesEqual_plugin_go
    \/ CallAdjustEndpoints_plugin_go

SpecPluginGo == Init /\ [][NextPluginGo]_vars

(***************************************************************************)
(* The adapter (src/provider/plugin/httpapi.go, src/provider/aws/          *)
(* aws-plugin.go): the routes of the ServeMux and the negotiation handler  *)
(***************************************************************************)
Servers == {"HTTPProvider", "AWSPlugin"}
Methods == {"GET", "POST", "PUT", "DELETE"}

\* the paths of the requests: the root, the three registered routes, the
\* comparison path the proxy builds, and a path nobody registered
Paths == {<<>>, <<"records">>, <<"propertyvaluesequal">>, <<"adjustendpoints">>,
          <<"propertiesvaluesequal">>, <<"other">>}

RequestBodies ==
    {JEmpty, JMalformed, JNull,
     JPve(PropertyValuesEqualsRequest("ttl", "300", "600")),
     JArray(<<WireEndpoint(EpA)>>),
     JChanges(Changes(<<EpA>>, <<EpB>>, <<EpB>>, <<>>)),
     JChanges(Changes(<<>>, <<EpA>>, <<>>, <<>>))}

\* the ServeMux built by StartHTTPApi and StartAWSPluginProvider: the three
\* routes match their exact path, "/" matches every other path
ServeMux(path) ==
    CASE path = <<"records">> -> "records"
      [] path = <<"propertyvaluesequal">> -> "propertyvaluesequal"
      [] path = <<"adjustendpoints">> -> "adjustendpoints"
      [] OTHER -> "negotiate"

\* the state of an http.ResponseWriter a handler has not touched
NewResponseWriter == [Header |-> Header("", ""), StatusCode |-> 0, Body |-> JEmpty, invoked |-> <<>>]

\* a negotiation handler that forgets the Vary header
negotiate_NoVary(w, method, body) ==
    LET w2 == [w EXCEPT !.Header.ContentType = mediaTypeFormatAndVersion]
    IN  [w2 EXCEPT !.StatusCode = StatusOK]

\* HTTPProvider.negotiate and AWSPlugin.Negotiate: w is the response writer,
\* invoked the calls made on the wrapped provider
negotiate(w, method, body) ==
    LET w1 == [w EXCEPT !.Header.Vary = contentTypeHeader]
        w2 == [w1 EXCEPT !.Header.ContentType = mediaTypeFormatAndVersion]
    IN  [w2 EXCEPT !.StatusCode = StatusOK]

\* a request routed to the root handler
HandleNegotiate ==
    /\ \E server \in Servers, method \in Methods, path \in Paths, body \in RequestBodies :
         /\ ServeMux(path) = "negotiate"
         /\ LET w == negotiate(NewResponseWriter, method, body)
            IN  srv' = [handler |-> "negotiate", server |-> server, Method |-> method,
                        Path |-> path, Body |-> body, prov |-> DefaultProvider,
                        again |-> DefaultProvider,
                        resp |-> Response(w.StatusCode, w.Header, w.Body, FALSE),
                        invoked |-> w.invoked]
    /\ UNCHANGED <<p, gauges, handshake, last, prev, ncalls, inflight,
                   start, running>>

(***************************************************************************)
(* The handlers of HTTPProvider (src/provider/plugin/httpapi.go)           *)
(***************************************************************************)
\* what the wrapped provider may do on one request to each route
RecordsProviders ==
    {Provider(r, FALSE, ae, FALSE, NilSlice) : r \in Slices, ae \in BOOLEAN}
        \cup {Provider(NilSlice, TRUE, ae, FALSE, NilSlice) : ae \in BOOLEAN}
CompareProviders == {Provider(NilSlice, FALSE, FALSE, b, NilSlice) : b \in BOOLEAN}
AdjustProviders == {Provider(NilSlice, FALSE, FALSE, FALSE, a) : a \in Slices}

\* one call made on the wrapped provider, with its arguments
Invocation(op, pve, e, changes) == [op |-> op, pve |-> pve, e |-> e, changes |-> changes]
Invoke(w, inv) == [w EXCEPT !.invoked = Append(@, inv)]

\* what net/http puts in Content-Type when a handler writes a JSON text
\* without setting the header
SniffedContentType == "text/plain; charset=utf-8"

\* w.WriteHeader(code): the first status written stands
WriteHeader(w, code) == IF w.StatusCode = 0 THEN [w EXCEPT !.StatusCode = code] ELSE w

\* w.Write(doc): writes status 200 when none was written, and a sniffed
\* Content-Type when none was set
Write(w, doc) ==
    LET w1 == WriteHeader(w, StatusOK)
        w2 == IF w1.Header.ContentType = ""
              THEN [w1 EXCEPT !.Header.ContentType = SniffedContentType]
              ELSE w1
    IN  [w2 EXCEPT !.Body = doc]

\* the response net/http sends when the handler returns: status 200 when
\* the handler wrote none
ServerResponse(w) ==
    Response(IF w.StatusCode = 0 THEN StatusOK ELSE w.StatusCode, w.Header, w.Body, FALSE)

\* json.NewDecoder(req.Body).Decode(&changes) with changes == plan.Changes{}:
\* an object fills the fields it names, null leaves the zero value, an
\* array, an empty body and malformed bytes are errors.  The lengths of
\* UpdateOld and UpdateNew are not compared.
DecodeChanges(b) ==
    CASE b.kind = "changes" ->
            [err |-> FALSE, val |-> Changes(b.chg.Create, b.chg.UpdateOld, b.chg.UpdateNew, b.chg.Delete)]
      [] b.kind \in {"object", "equals", "pve", "null"} ->
            [err |-> FALSE, val |-> Changes(<<>>, <<>>, <<>>, <<>>)]
      [] OTHER -> [err |-> TRUE, val |-> Changes(<<>>, <<>>, <<>>, <<>>)]

\* json.NewDecoder(req.Body).Decode(&pve) with pve == PropertyValuesEqualsRequest{}
DecodePve(b) ==
    CASE b.kind = "pve" -> [err |-> FALSE, val |-> b.pve]
      [] b.kind \in {"object", "equals", "changes", "null"} -> [err |-> FALSE, val |-> NoPve]
      [] OTHER -> [err |-> TRUE, val |-> NoPve]

\* recordsHandler answering 200 and an empty array when Records fails
recordsHandler_HidesError(w, method, body, prov) ==
    IF method = "GET"
    THEN LET w1 == Invoke(w, Invocation("Records", NoPve, NilSlice, NilChanges))
             w2 == [w1 EXCEPT !.Header.ContentType = "application/json"]
         IN  Write(WriteHeader(w2, StatusOK),
                   MarshalEndpoints(IF prov.recordsErr THEN Slice(<<>>) ELSE prov.records))
    ELSE WriteHeader(w, StatusBadRequest)

\* recordsHandler applying the zero change-set when the body does not decode
recordsHandler_NoDecodeCheck(w, method, body, prov) ==
    IF method = "GET"
    THEN LET w1 == Invoke(w, Invocation("Records", NoPve, NilSlice, NilChanges))
         IN  IF prov.recordsErr
             THEN WriteHeader(w1, StatusInternalServerError)
             ELSE LET w2 == [w1 EXCEPT !.Header.ContentType = "application/json"]
                  IN  Write(WriteHeader(w2, StatusOK), MarshalEndpoints(prov.records))
    ELSE IF method = "POST"
    THEN LET changes == DecodeChanges(body)
             w1 == Invoke(w, Invocation("ApplyChanges", NoPve, NilSlice, changes.val))
         IN  IF prov.applyErr
             THEN WriteHeader(w1, StatusInternalServerError)
             ELSE WriteHeader(w1, StatusOK)
    ELSE WriteHeader(w, StatusBadRequest)

\* recordsHandler answering 200 when ApplyChanges fails
recordsHandler_IgnoresApplyError(w, method, body, prov) ==
    IF method = "GET"
    THEN LET w1 == Invoke(w, Invocation("Records", NoPve, NilSlice, NilChanges))
         IN  IF prov.recordsErr
             THEN WriteHeader(w1, StatusInternalServerError)
             ELSE LET w2 == [w1 EXCEPT !.Header.ContentType = "application/json"]
                  IN  Write(WriteHeader(w2, StatusOK), MarshalEndpoints(prov.records))
    ELSE IF method = "POST"
    THEN LET changes == DecodeChanges(body)
         IN  IF changes.err
             THEN WriteHeader(w, StatusBadRequest)
             ELSE WriteHeader(Invoke(w, Invocation("ApplyChanges", NoPve, NilSlice, changes.val)),
                              StatusOK)
    ELSE WriteHeader(w, StatusBadRequest)

\* HTTPProvider.recordsHandler
recordsHandler(w, method, body, prov) ==
    IF method = "GET"
    THEN LET w1 == Invoke(w, Invocation("Records", NoPve, NilSlice, NilChanges))
         IN  IF prov.recordsErr
             THEN WriteHeader(w1, StatusInternalServerError)
             ELSE LET w2 == [w1 EXCEPT !.Header.ContentType = "application/json"]
                      w3 == WriteHeader(w2, StatusOK)
                  IN  Write(w3, MarshalEndpoints(prov.records))
    ELSE IF method = "POST"
    THEN LET changes == DecodeChanges(body)
         IN  IF changes.err
             THEN WriteHeader(w, StatusBadRequest)
             ELSE LET w1 == Invoke(w, Invocation("ApplyChanges", NoPve, NilSlice, changes.val))
                  IN  IF prov.applyErr
                      THEN WriteHeader(w1, StatusInternalServerError)
                      ELSE WriteHeader(w1, StatusOK)
    ELSE WriteHeader(w, StatusBadRequest)

\* HTTPProvider.propertyValuesEqualHandler
propertyValuesEqualHandler(w, method, body, prov) ==
    IF method # "POST"
    THEN WriteHeader(w, StatusBadRequest)
    ELSE LET pve == DecodePve(body)
         IN  IF pve.err
             THEN WriteHeader(w, StatusBadRequest)
             ELSE LET w1 == Invoke(w, Invocation("PropertyValuesEqual", pve.val, NilSlice, NilChanges))
                      out == JEquals(prov.equals)
                  IN  Write(w1, out)

\* adjustEndpointsHandler without the check of the method
adjustEndpointsHandler_AnyMethod(w, method, body, prov) ==
    LET pve == UnmarshalEndpoints(body)
    IN  IF pve.err
        THEN WriteHeader(w, StatusBadRequest)
        ELSE Write(Invoke(w, Invocation("AdjustEndpoints", NoPve, pve.val, NilChanges)),
                   MarshalEndpoints(prov.adjusted))

\* HTTPProvider.adjustEndpointsHandler
adjustEndpointsHandler(w, method, body, prov) ==
    IF method # "POST"
    THEN WriteHeader(w, StatusBadRequest)
    ELSE LET pve == UnmarshalEndpoints(body)
         IN  IF pve.err
             THEN WriteHeader(w, StatusBadRequest)
             ELSE LET w1 == Invoke(w, Invocation("AdjustEndpoints", NoPve, pve.val, NilChanges))
                      out == MarshalEndpoints(prov.adjusted)
                  IN  Write(w1, out)

\* the mux of StartHTTPApi serving one request: the handler of the route
\* runs on a fresh response writer
ServeHTTP(method, path, body, prov) ==
    LET route == ServeMux(path)
    IN  CASE route = "records" -> recordsHandler(NewResponseWriter, method, body, prov)
          [] route = "propertyvaluesequal" ->
                propertyValuesEqualHandler(NewResponseWriter, method, body, prov)
          [] route = "adjustendpoints" ->
                adjustEndpointsHandler(NewResponseWriter, method, body, prov)
          [] OTHER -> negotiate(NewResponseWriter, method, body)

\* what is remembered of a request HTTPProvider served
Served(method, path, body, prov) ==
    LET w == ServeHTTP(method, path, body, prov)
    IN  [handler |-> ServeMux(path), server |-> "HTTPProvider", Method |-> method,
         Path |-> path, Body |-> body, prov |-> prov, again |-> prov,
         resp |-> ServerResponse(w), invoked |-> w.invoked]

\* a request on /records
HandleRecords ==
    /\ \E method \in Methods, body \in RequestBodies, prov \in RecordsProviders :
         srv' = Served(method, <<"records">>, body, prov)
    /\ UNCHANGED <<p, gauges, handshake, last, prev, ncalls, inflight,
                   start, running>>

\* a request on /propertyvaluesequal
HandlePropertyValuesEqual ==
    /\ \E method \in Methods, body \in RequestBodies, prov \in CompareProviders :
         srv' = Served(method, <<"propertyvaluesequal">>, body, prov)
    /\ UNCHANGED <<p, gauges, handshake, last, prev, ncalls, inflight,
                   start, running>>

\* a request on /adjustendpoints
HandleAdjustEndpoints ==
    /\ \E method \in Methods, body \in RequestBodies, prov \in AdjustProviders :
         srv' = Served(method, <<"adjustendpoints">>, body, prov)
    /\ UNCHANGED <<p, gauges, handshake, last, prev, ncalls, inflight,
                   start, running>>

(***************************************************************************)
(* The handlers of AWSPlugin (src/provider/aws/aws-plugin.go)              *)
(***************************************************************************)
\* AWSPlugin.awsProviderHandler.  prov is the behaviour of p.provider on
\* the first call the handler makes, again its behaviour on a second one
awsProviderHandler(w, method, body, prov, again) ==
    IF method = "GET"
    THEN LET w1 == Invoke(w, Invocation("Records", NoPve, NilSlice, NilChanges))
         IN  IF prov.recordsErr
             THEN WriteHeader(w1, StatusInternalServerError)
             ELSE LET w2 == [w1 EXCEPT !.Header.ContentType = "application/json"]
                      w3 == WriteHeader(w2, StatusOK)
                  IN  Write(w3, MarshalEndpoints(prov.records))
    ELSE IF method = "POST"
    THEN LET changes == DecodeChanges(body)
         IN  IF changes.err
             THEN WriteHeader(w, StatusBadRequest)
             ELSE LET w1 == Invoke(w, Invocation("ApplyChanges", NoPve, NilSlice, changes.val))
                      w2 == Invoke(w1, Invocation("ApplyChanges", NoPve, NilSlice, changes.val))
                  IN  IF again.applyErr
                      THEN WriteHeader(w2, StatusInternalServerError)
                      ELSE WriteHeader(w2, StatusOK)
    ELSE w

\* a request on /records of the AWS plugin
HandleAwsRecords ==
    /\ \E method \in Methods, body \in RequestBodies, prov \in RecordsProviders,
          applyErr \in BOOLEAN :
         LET again == [prov EXCEPT !.applyErr = applyErr]
             w == awsProviderHandler(NewResponseWriter, method, body, prov, again)
         IN  srv' = [handler |-> "records", server |-> "AWSPlugin", Method |-> method,
                     Path |-> <<"records">>, Body |-> body, prov |-> prov, again |-> again,
                     resp |-> ServerResponse(w), invoked |-> w.invoked]
    /\ UNCHANGED <<p, gauges, handshake, last, prev, ncalls, inflight,
                   start, running>>

\* AWSPlugin.propertyValuesEquals: a GET is decoded and answered, every
\* other method falls through without a write
propertyValuesEquals(w, method, body, prov) ==
    IF method = "GET"
    THEN LET pve == DecodePve(body)
         IN  IF pve.err
             THEN WriteHeader(w, StatusBadRequest)
             ELSE LET w1 == Invoke(w, Invocation("PropertyValuesEqual", pve.val, NilSlice, NilChanges))
                      out == JEquals(prov.equals)
                  IN  Write(w1, out)
    ELSE w

\* AWSPlugin.adjustEndpoints: a GET is decoded and answered, every other
\* method falls through without a write
adjustEndpoints(w, method, body, prov) ==
    IF method = "GET"
    THEN LET pve == UnmarshalEndpoints(body)
         IN  IF pve.err
             THEN WriteHeader(w, StatusBadRequest)
             ELSE LET w1 == Invoke(w, Invocation("AdjustEndpoints", NoPve, pve.val, NilChanges))
                      out == MarshalEndpoints(prov.adjusted)
                  IN  Write(w1, out)
    ELSE w

\* a request on /propertyvaluesequal of the AWS plugin
HandleAwsPropertyValuesEquals ==
    /\ \E method \in Methods, body \in RequestBodies, prov \in CompareProviders :
         LET w == propertyValuesEquals(NewResponseWriter, method, body, prov)
         IN  srv' = [handler |-> "propertyvaluesequal", server |-> "AWSPlugin",
                     Method |-> method, Path |-> <<"propertyvaluesequal">>, Body |-> body,
                     prov |-> prov, again |-> prov,
                     resp |-> ServerResponse(w), invoked |-> w.invoked]
    /\ UNCHANGED <<p, gauges, handshake, last, prev, ncalls, inflight,
                   start, running>>

\* a request on /adjustendpoints of the AWS plugin
HandleAwsAdjustEndpoints ==
    /\ \E method \in Methods, body \in RequestBodies, prov \in AdjustProviders :
         LET w == adjustEndpoints(NewResponseWriter, method, body, prov)
         IN  srv' = [handler |-> "adjustendpoints", server |-> "AWSPlugin",
                     Method |-> method, Path |-> <<"adjustendpoints">>, Body |-> body,
                     prov |-> prov, again |-> prov,
                     resp |-> ServerResponse(w), invoked |-> w.invoked]
    /\ UNCHANGED <<p, gauges, handshake, last, prev, ncalls, inflight,
                   start, running>>

NextAdapter ==
    \/ HandleNegotiate
    \/ HandleRecords
    \/ HandlePropertyValuesEqual
    \/ HandleAdjustEndpoints
    \/ HandleAwsRecords
    \/ HandleAwsPropertyValuesEquals
    \/ HandleAwsAdjustEndpoints

SpecAdapter == Init /\ [][NextAdapter]_vars

(***************************************************************************)
(* The proxy of part_001 talking to HTTPProvider: client.Do delivers the   *)
(* request the proxy built to the mux of StartHTTPApi and hands the        *)
(* server's response back, or fails                                        *)
(***************************************************************************)
\* client.Do(req) against the adapter wrapping prov.  reqs are the requests
\* the call sends (none when it returns before client.Do)
Do(reqs, prov, fails) ==
    IF reqs = <<>> THEN NoResponse
    ELSE IF fails THEN TransportError
    ELSE ServerResponse(ServeHTTP(reqs[1].Method, reqs[1].URL.Path, reqs[1].Body, prov))

\* what the adapter remembers of the request, when one reached it
DoServed(reqs, prov, fails) ==
    IF reqs = <<>> \/ fails THEN NoSrv
    ELSE Served(reqs[1].Method, reqs[1].URL.Path, reqs[1].Body, prov)

WireNewPluginProvider ==
    /\ ncalls < MaxCalls
    /\ p.isNil
    /\ \E u \in URLStrings, fails \in BOOLEAN :
         LET reqs == NewPluginProvider(u, TransportError, recordsErrorsGauge).reqs
             resp == Do(reqs, DefaultProvider, fails)
             r == NewPluginProvider(u, resp, recordsErrorsGauge)
         IN  /\ p' = r.p
             /\ recordsErrorsGauge' = r.gauge
             /\ handshake' = [done |-> r.reqs # <<>> /\ ~resp.err,
                              vary |-> IF r.reqs # <<>> THEN resp.Header.Vary ELSE "",
                              contentType |-> IF r.reqs # <<>> THEN resp.Header.ContentType ELSE ""]
             /\ last' = Call("NewPluginProvider", u, NoPve, NilSlice, NilChanges, resp, r.reqs,
                             ~r.p.isNil, r.err, FALSE, NilSlice)
             /\ srv' = DoServed(reqs, DefaultProvider, fails)
    /\ ncalls' = ncalls + 1
    /\ prev' = Summary(last)
    /\ UNCHANGED <<applyChangesErrorsGauge, propertyValuesEqualErrorsGauge,
                   adjustEndpointsErrorsGauge, inflight,
                   start, running>>

WireRecords ==
    /\ ncalls < MaxCalls
    /\ ~p.isNil
    /\ \E prov \in RecordsProviders, fails \in BOOLEAN :
         LET reqs == Records(p, TransportError, recordsErrorsGauge).reqs
             resp == Do(reqs, prov, fails)
             r == Records(p, resp, recordsErrorsGauge)
         IN  /\ recordsErrorsGauge' = r.gauge
             /\ last' = Call("Records", "", NoPve, NilSlice, NilChanges, resp, r.reqs,
                             FALSE, r.err, FALSE, r.endpoints)
             /\ srv' = DoServed(reqs, prov, fails)
    /\ ncalls' = ncalls + 1
    /\ prev' = Summary(last)
    /\ UNCHANGED <<p, applyChangesErrorsGauge, propertyValuesEqualErrorsGauge,
                   adjustEndpointsErrorsGauge, handshake, inflight,
                   start, running>>

WireApplyChanges ==
    /\ ncalls < MaxCalls
    /\ ~p.isNil
    /\ \E changes \in ChangesInputs, prov \in RecordsProviders, fails \in BOOLEAN :
         LET reqs == ApplyChanges(p, changes, TransportError, applyChangesErrorsGauge).reqs
             resp == Do(reqs, prov, fails)
             r == ApplyChanges(p, changes, resp, applyChangesErrorsGauge)
         IN  /\ applyChangesErrorsGauge' = r.gauge
             /\ last' = Call("ApplyChanges", "", NoPve, NilSlice, changes, resp, r.reqs,
                             FALSE, r.err, FALSE, NilSlice)
             /\ srv' = DoServed(reqs, prov, fails)
    /\ ncalls' = ncalls + 1
    /\ prev' = Summary(last)
    /\ UNCHANGED <<p, recordsErrorsGauge, propertyValuesEqualErrorsGauge,
                   adjustEndpointsErrorsGauge, handshake, inflight,
                   start, running>>

WirePropertyValuesEqual ==
    /\ ncalls < MaxCalls
    /\ ~p.isNil
    /\ \E name \in PropertyNames, previous \in PropertyValues, current \in PropertyValues,
          prov \in CompareProviders, fails \in BOOLEAN :
         LET reqs == PropertyValuesEqual(p, name, previous, current, TransportError,
                                         propertyValuesEqualErrorsGauge).reqs
             resp == Do(reqs, prov, fails)
             r == PropertyValuesEqual(p, name, previous, current, resp,
                                      propertyValuesEqualErrorsGauge)
         IN  /\ propertyValuesEqualErrorsGauge' = r.gauge
             /\ last' = Call("PropertyValuesEqual", "",
                             PropertyValuesEqualsRequest(name, previous, current),
                             NilSlice, NilChanges, resp, r.reqs, FALSE, FALSE, r.equals, NilSlice)
             /\ srv' = DoServed(reqs, prov, fails)
    /\ ncalls' = ncalls + 1
    /\ prev' = Summary(last)
    /\ UNCHANGED <<p, recordsErrorsGauge, applyChangesErrorsGauge,
                   adjustEndpointsErrorsGauge, handshake, inflight,
                   start, running>>

WireAdjustEndpoints ==
    /\ ncalls < MaxCalls
    /\ ~p.isNil
    /\ \E e \in Slices, prov \in AdjustProviders, fails \in BOOLEAN :
         LET reqs == AdjustEndpoints(p, e, TransportError, adjustEndpointsErrorsGauge).reqs
             resp == Do(reqs, prov, fails)
             r == AdjustEndpoints(p, e, resp, adjustEndpointsErrorsGauge)
         IN  /\ adjustEndpointsErrorsGauge' = r.gauge
             /\ last' = Call("AdjustEndpoints", "", NoPve, e, NilChanges, resp, r.reqs,
                             FALSE, FALSE, FALSE, r.endpoints)
             /\ srv' = DoServed(reqs, prov, fails)
    /\ ncalls' = ncalls + 1
    /\ prev' = Summary(last)
    /\ UNCHANGED <<p, recordsErrorsGauge, applyChangesErrorsGauge,
                   propertyValuesEqualErrorsGauge, handshake, inflight,
                   start, running>>

NextWire ==
    \/ WireNewPluginProvider
    \/ WireRecords
    \/ WireApplyChanges
    \/ WirePropertyValuesEqual
    \/ WireAdjustEndpoints

SpecWire == Init /\ [][NextWire]_vars

(***************************************************************************)
(* Records and ApplyChanges of part_001 with the time their request is in  *)
(* flight: the call enters client.Do, the caller may cancel ctx meanwhile, *)
(* and client.Do returns when the round trip ends.  The request is built   *)
(* by http.NewRequest, which does not take ctx, and the http.Client has no *)
(* Timeout, so nothing connects ctx to the round trip.                     *)
(***************************************************************************)
Flight(state, op, changes, cancelled) ==
    [state |-> state, op |-> op, changes |-> changes, cancelled |-> cancelled]

\* Records(ctx) up to p.client.Do(req)
StartRecords ==
    /\ ncalls < MaxCalls
    /\ ~p.isNil
    /\ inflight.state # "waiting"
    /\ inflight' = Flight("waiting", "Records", NilChanges, FALSE)
    /\ UNCHANGED <<p, gauges, handshake, last, prev, ncalls, srv,
                   start, running>>

\* ApplyChanges(ctx, changes) up to p.client.Do(req)
StartApplyChanges ==
    /\ ncalls < MaxCalls
    /\ ~p.isNil
    /\ inflight.state # "waiting"
    /\ \E changes \in ChangesInputs :
         inflight' = Flight("waiting", "ApplyChanges", changes, FALSE)
    /\ UNCHANGED <<p, gauges, handshake, last, prev, ncalls, srv,
                   start, running>>

\* the caller cancels ctx, or its deadline passes: the call does not read
\* ctx, so the round trip goes on
CancelContext ==
    /\ inflight.state = "waiting"
    /\ ~inflight.cancelled
    /\ inflight' = [inflight EXCEPT !.cancelled = TRUE]
    /\ UNCHANGED <<p, gauges, handshake, last, prev, ncalls, srv,
                   start, running>>

\* client.Do returns to Records, which runs to its end
ReturnRecords ==
    /\ inflight.state = "waiting"
    /\ inflight.op = "Records"
    /\ \E resp \in BusinessResponses :
         LET r == Records(p, resp, recordsErrorsGauge)
         IN  /\ recordsErrorsGauge' = r.gauge
             /\ last' = Call("Records", "", NoPve, NilSlice, NilChanges, resp, r.reqs,
                             FALSE, r.err, FALSE, r.endpoints)
    /\ inflight' = [inflight EXCEPT !.state = "returned"]
    /\ ncalls' = ncalls + 1
    /\ prev' = Summary(last)
    /\ UNCHANGED <<p, applyChangesErrorsGauge, propertyValuesEqualErrorsGauge,
                   adjustEndpointsErrorsGauge, handshake, srv,
                   start, running>>

\* client.Do returns to ApplyChanges, which runs to its end
ReturnApplyChanges ==
    /\ inflight.state = "waiting"
    /\ inflight.op = "ApplyChanges"
    /\ \E resp \in BusinessResponses :
         LET r == ApplyChanges(p, inflight.changes, resp, applyChangesErrorsGauge)
         IN  /\ applyChangesErrorsGauge' = r.gauge
             /\ last' = Call("ApplyChanges", "", NoPve, NilSlice, inflight.changes, resp, r.reqs,
                             FALSE, r.err, FALSE, NilSlice)
    /\ inflight' = [inflight EXCEPT !.state = "returned"]
    /\ ncalls' = ncalls + 1
    /\ prev' = Summary(last)
    /\ UNCHANGED <<p, recordsErrorsGauge, propertyValuesEqualErrorsGauge,
                   adjustEndpointsErrorsGauge, handshake, srv,
                   start, running>>

NextCancel ==
    \/ CallNewPluginProvider
    \/ StartRecords
    \/ StartApplyChanges
    \/ CancelContext
    \/ ReturnRecords
    \/ ReturnApplyChanges

SpecCancel == Init /\ [][NextCancel]_vars

(***************************************************************************)
(* StartHTTPApi (src/provider/plugin/httpapi.go) and                       *)
(* StartAWSPluginProvider (src/provider/aws/aws-plugin.go), step by step:  *)
(* net.Listen, the send on startedChan, s.Serve                            *)
(***************************************************************************)
Channels == {"nil", "unbuffered", "buffered"}

\* startedChan <- struct{}{}: a send on a nil channel blocks forever, a send
\* on an unbuffered channel completes together with a receive, a send on a
\* buffered channel with room completes at once.  A blocked send leaves the
\* state as it is
Send(st) ==
    CASE st.chan = "nil" -> st
      [] st.chan = "unbuffered" ->
            IF st.observer
            THEN [st EXCEPT !.sent = TRUE, !.received = TRUE, !.pc = "serve"]
            ELSE st
      [] OTHER -> [st EXCEPT !.sent = TRUE, !.queued = 1, !.pc = "serve"]

\* log.Fatal and panic end the process, which gives the port back
Exit(st) == [st EXCEPT !.pc = "exited", !.bound = FALSE]

\* StartHTTPApi sending the signal before it listens
StartHTTPApi_SignalsFirst(st) ==
    CASE st.pc = "listen" ->
            IF st.chan = "nil" THEN [st EXCEPT !.pc = "signal"]
            ELSE [Send(st) EXCEPT !.pc = IF Send(st) = st THEN "listen" ELSE "signal"]
      [] st.pc = "signal" ->
            IF st.portFree
            THEN [st EXCEPT !.bound = TRUE, !.pc = "serve"]
            ELSE Exit([st EXCEPT !.bindFailed = TRUE])
      [] st.pc = "serve" -> [st EXCEPT !.pc = "serving"]
      [] OTHER -> st

\* the next step of StartHTTPApi
StartHTTPApi(st) ==
    CASE st.pc = "listen" ->
            IF st.portFree
            THEN [st EXCEPT !.bound = TRUE, !.pc = "signal"]
            ELSE Exit([st EXCEPT !.bindFailed = TRUE])
      [] st.pc = "signal" ->
            IF st.chan # "nil" THEN Send(st) ELSE [st EXCEPT !.pc = "serve"]
      [] st.pc = "serve" -> [st EXCEPT !.pc = "serving"]
      [] OTHER -> st

\* the next step of StartAWSPluginProvider
StartAWSPluginProvider(st) ==
    CASE st.pc = "new" ->
            IF st.config THEN [st EXCEPT !.pc = "listen"] ELSE Exit(st)
      [] st.pc = "listen" ->
            IF st.portFree
            THEN [st EXCEPT !.bound = TRUE, !.pc = "signal"]
            ELSE Exit([st EXCEPT !.bindFailed = TRUE])
      [] st.pc = "signal" -> Send(st)
      [] st.pc = "serve" -> [st EXCEPT !.pc = "serving"]
      [] OTHER -> st

\* go StartHTTPApi(provider, startedChan)
CallStartHTTPApi ==
    /\ start.pc \in {"idle", "exited"}
    /\ start.starts < MaxStarts
    /\ \E chan \in Channels, observer \in BOOLEAN, portFree \in BOOLEAN :
         /\ chan = "nil" => ~observer
         /\ start' = [NotStarted EXCEPT !.fn = "StartHTTPApi", !.pc = "listen", !.chan = chan,
                                        !.observer = observer, !.portFree = portFree,
                                        !.config = TRUE, !.starts = start.starts + 1]
    /\ UNCHANGED <<p, gauges, handshake, last, prev, ncalls, srv, inflight, running>>

\* go StartAWSPluginProvider(config, startedChan)
CallStartAWSPluginProvider ==
    /\ start.pc \in {"idle", "exited"}
    /\ start.starts < MaxStarts
    /\ \E chan \in Channels, observer \in BOOLEAN, portFree \in BOOLEAN, config \in BOOLEAN :
         /\ chan = "nil" => ~observer
         /\ start' = [NotStarted EXCEPT !.fn = "StartAWSPluginProvider", !.pc = "new",
                                        !.chan = chan, !.observer = observer,
                                        !.portFree = portFree, !.config = config,
                                        !.starts = start.starts + 1]
    /\ UNCHANGED <<p, gauges, handshake, last, prev, ncalls, srv, inflight, running>>

StepStartHTTPApi ==
    /\ start.fn = "StartHTTPApi"
    /\ StartHTTPApi(start) # start
    /\ start' = StartHTTPApi(start)
    /\ UNCHANGED <<p, gauges, handshake, last, prev, ncalls, srv, inflight, running>>

StepStartAWSPluginProvider ==
    /\ start.fn = "StartAWSPluginProvider"
    /\ StartAWSPluginProvider(start) # start
    /\ start' = StartAWSPluginProvider(start)
    /\ UNCHANGED <<p, gauges, handshake, last, prev, ncalls, srv, inflight, running>>

\* the observer's <-startedChan on a buffered channel that holds the signal
Receive ==
    /\ start.pc # "exited"
    /\ start.observer
    /\ start.queued > 0
    /\ start' = [start EXCEPT !.queued = 0, !.received = TRUE]
    /\ UNCHANGED <<p, gauges, handshake, last, prev, ncalls, srv, inflight, running>>

\* s.Serve(l) returns an error and log.Fatal ends the process
ServeFails ==
    /\ start.pc = "serving"
    /\ start' = Exit(start)
    /\ UNCHANGED <<p, gauges, handshake, last, prev, ncalls, srv, inflight, running>>

NextStart ==
    \/ CallStartHTTPApi
    \/ CallStartAWSPluginProvider
    \/ StepStartHTTPApi
    \/ StepStartAWSPluginProvider
    \/ Receive
    \/ ServeFails

SpecStart == Init /\ [][NextStart]_vars

(***************************************************************************)
(* Calls of PropertyValuesEqual and AdjustEndpoints of part_001 running    *)
(* concurrently on one proxy.  A call shares nothing with the others but   *)
(* the gauge of its operation, which it touches in one atomic Inc, so a    *)
(* call is two steps: up to client.Do, and from the return of client.Do on *)
(***************************************************************************)
\* the outcomes of client.Do for the concurrent calls
ConcurrentResponses ==
    {TransportError,
     Response(StatusInternalServerError, JSONHeader, JEmpty, FALSE),
     Response(StatusOK, JSONHeader, JEquals(FALSE), FALSE),
     Response(StatusOK, JSONHeader, JArray(<<WireEndpoint(EpB)>>), FALSE)}

ConcurrentInputs == {Slice(<<EpA>>), Slice(<<EpA, EpB>>)}

Thread(pc, call, raced) == [pc |-> pc, call |-> call, raced |-> raced]

\* another goroutine is inside client.Do
OthersInDo(t) == \E u \in Threads \ {t} : running[u].pc = "do"

\* go provider.PropertyValuesEqual(name, previous, current), up to client.Do
GoPropertyValuesEqual(t) ==
    /\ ~p.isNil
    /\ running[t].pc = "idle"
    /\ \E name \in PropertyNames, previous \in PropertyValues, current \in PropertyValues :
         running' = [running EXCEPT ![t] =
             Thread("do", Call("PropertyValuesEqual", "",
                               PropertyValuesEqualsRequest(name, previous, current),
                               NilSlice, NilChanges, NoResponse, <<>>, FALSE, FALSE, FALSE,
                               NilSlice), FALSE)]
    /\ UNCHANGED <<p, gauges, handshake, last, prev, ncalls, srv, inflight, start>>

\* go provider.AdjustEndpoints(e), up to client.Do
GoAdjustEndpoints(t) ==
    /\ ~p.isNil
    /\ running[t].pc = "idle"
    /\ \E e \in ConcurrentInputs :
         running' = [running EXCEPT ![t] =
             Thread("do", Call("AdjustEndpoints", "", NoPve, e, NilChanges, NoResponse, <<>>,
                               FALSE, FALSE, FALSE, NilSlice), FALSE)]
    /\ UNCHANGED <<p, gauges, handshake, last, prev, ncalls, srv, inflight, start>>

\* client.Do returns to PropertyValuesEqual, which runs to its end
ReturnPropertyValuesEqual(t) ==
    /\ running[t].pc = "do"
    /\ running[t].call.op = "PropertyValuesEqual"
    /\ \E resp \in ConcurrentResponses :
         LET a == running[t].call.pve
             r == PropertyValuesEqual(p, a.Name, a.Previous, a.Current, resp,
                                      propertyValuesEqualErrorsGauge)
         IN  /\ propertyValuesEqualErrorsGauge' = r.gauge
             /\ running' = [running EXCEPT ![t] =
                    Thread("done", Call("PropertyValuesEqual", "", a, NilSlice, NilChanges, resp,
                                        r.reqs, FALSE, FALSE, r.equals, NilSlice),
                           OthersInDo(t))]
    /\ UNCHANGED <<p, recordsErrorsGauge, applyChangesErrorsGauge, adjustEndpointsErrorsGauge,
                   handshake, last, prev, ncalls, srv, inflight, start>>

\* client.Do returns to AdjustEndpoints, which runs to its end
ReturnAdjustEndpoints(t) ==
    /\ running[t].pc = "do"
    /\ running[t].call.op = "AdjustEndpoints"
    /\ \E resp \in ConcurrentResponses :
         LET e == running[t].call.e
             r == AdjustEndpoints(p, e, resp, adjustEndpointsErrorsGauge)
         IN  /\ adjustEndpointsErrorsGauge' = r.gauge
             /\ running' = [running EXCEPT ![t] =
                    Thread("done", Call("AdjustEndpoints", "", NoPve, e, NilChanges, resp,
                                        r.reqs, FALSE, FALSE, FALSE, r.endpoints),
                           OthersInDo(t))]
    /\ UNCHANGED <<p, recordsErrorsGauge, applyChangesErrorsGauge,
                   propertyValuesEqualErrorsGauge, handshake, last, prev, ncalls, srv, inflight,
                   start>>

\* the answer of an adapter to the negotiation request
NegotiatedResponse ==
    Response(StatusOK, Header(contentTypeHeader, mediaTypeFormatAndVersion), JEmpty, FALSE)

\* the state after provider, err := NewPluginProvider(u) against a server
\* that negotiates: the goroutines share the proxy it returned
InitConcurrent ==
    LET r == NewPluginProvider(GoodURL, NegotiatedResponse, 0)
    IN  /\ p = r.p
        /\ recordsErrorsGauge = r.gauge
        /\ applyChangesErrorsGauge = 0
        /\ propertyValuesEqualErrorsGauge = 0
        /\ adjustEndpointsErrorsGauge = 0
        /\ handshake = [done |-> TRUE, vary |-> NegotiatedResponse.Header.Vary,
                        contentType |-> NegotiatedResponse.Header.ContentType]
        /\ last = Call("NewPluginProvider", GoodURL, NoPve, NilSlice, NilChanges,
                       NegotiatedResponse, r.reqs, ~r.p.isNil, r.err, FALSE, NilSlice)
        /\ prev = Summary(NoCall)
        /\ ncalls = 1
        /\ srv = NoSrv
        /\ inflight = NoFlight
        /\ start = NotStarted
        /\ running = NoThreads

NextConcurrent ==
    \/ \E t \in Threads : GoPropertyValuesEqual(t)
    \/ \E t \in Threads : GoAdjustEndpoints(t)
    \/ \E t \in Threads : ReturnPropertyValuesEqual(t)
    \/ \E t \in Threads : ReturnAdjustEndpoints(t)

SpecConcurrent == InitConcurrent /\ [][NextConcurrent]_vars

(***************************************************************************)
(* Properties                                                              *)
(***************************************************************************)
\* the response of a call was a transport error, had a status other than
\* 200 or a body that could not be read
NoUsableResponse(c) ==
    \/ c.reqs = <<>>
    \/ c.resp.err
    \/ c.resp.StatusCode # 200
    \/ c.resp.BodyErr

\* the bodies that decode into a PropertiesValuesEqualsResponse, and the
\* value of Equals they decode to
DecodesAsEqualsResponse(b) == b.kind \in {"equals", "object", "pve", "changes", "null"}
DecodedEquals(b) == b.kind = "equals" /\ b.eq

\* the body is a JSON array of records, and the records it lists
IsRecordArray(b) == b.kind = "array"

\* the bodies that decode into a []*endpoint.Endpoint without an error: an
\* array of records, and null, which decodes to the nil slice
DecodesAsRecords(b) == b.kind \in {"array", "null"}
DecodedRecords(b) == Slice([i \in 1..Len(b.arr) |-> [DNSName |-> b.arr[i].dnsName]])

CompareFailed(c) == NoUsableResponse(c) \/ ~DecodesAsEqualsResponse(c.resp.Body)
ArrayFailed(c) == NoUsableResponse(c) \/ ~DecodesAsRecords(c.resp.Body)

\* C1: PropertyValuesEqual returns previous == current, and no error, when
\* its request ends in a transport error, a status other than 200, an
\* unreadable body or a body that does not decode; otherwise it returns the
\* decoded value of "equals".
C1_CompareFallback ==
    last.op = "PropertyValuesEqual" =>
        /\ ~last.err
        /\ CompareFailed(last) => (last.equals = (last.pve.Previous = last.pve.Current))
        /\ ~CompareFailed(last) => (last.equals = DecodedEquals(last.resp.Body))

\* C1 witness: a 500 response that says {"equals": true} for two different
\* values is answered by the literal comparison, false.
C1_Witness ==
    /\ last.op = "PropertyValuesEqual"
    /\ ~last.resp.err /\ last.resp.StatusCode = 500
    /\ last.resp.Body = JEquals(TRUE)
    /\ last.pve.Previous = "300" /\ last.pve.Current = "600"
    /\ last.equals = FALSE

\* C2: AdjustEndpoints returns exactly its input e, and no error, when its
\* request ends in a transport error, a status other than 200 whatever the
\* body, an unreadable body or a body that does not decode as a JSON array
\* of records.
C2_AdjustFallback ==
    (last.op = "AdjustEndpoints" /\ ArrayFailed(last)) =>
        (last.endpoints = last.e /\ ~last.err)

\* C3: Records returns an error and no records when its request ends in a
\* transport error, a status other than 200, an unreadable body or a body
\* that does not decode as a JSON array; records never come with an error
\* nor from a response whose status is not 200.
C3_RecordsHardFailure ==
    last.op = "Records" =>
        /\ ArrayFailed(last) => (last.err /\ last.endpoints = NilSlice)
        /\ last.err => last.endpoints = NilSlice

\* C4: ApplyChanges returns no error exactly when the server answered its
\* POST with status 200, on every call of the same proxy.
C4_ApplyChangesErrorIffNot200 ==
    last.op = "ApplyChanges" =>
        (~last.err <=> (last.reqs # <<>> /\ ~last.resp.err /\ last.resp.StatusCode = 200))

\* C4 witness: the second of two calls is answered 500 and fails after the
\* first one succeeded.
C4_Witness ==
    /\ prev.op = "ApplyChanges" /\ ~prev.err
    /\ last.op = "ApplyChanges" /\ last.err
    /\ ~last.resp.err /\ last.resp.StatusCode = 500
    /\ last.reqs # <<>> /\ last.reqs[1].Method = "POST" /\ last.reqs[1].URL.Path = <<"records">>

\* the answers of a server that writes a JSON array of records with status
\* 200 on every path and sets no negotiation header
TestServerResponse(r) ==
    /\ ~r.err /\ r.StatusCode = 200 /\ ~r.BodyErr
    /\ IsRecordArray(r.Body)
    /\ r.Header.Vary = ""
    /\ r.Header.ContentType # "application/external.dns.plugin+json;version=1"

\* C5: against a server that answers every request with 200 and a JSON
\* array of records and sets no negotiation header, NewPluginProvider
\* succeeds and Records returns the decoded records in order, with no error.
C5_TestRecords ==
    /\ (last.op = "NewPluginProvider" /\ last.reqs # <<>> /\ TestServerResponse(last.resp)) =>
           (last.proxy /\ ~last.err)
    /\ (last.op = "Records" /\ last.reqs # <<>> /\ ~last.resp.err /\ last.resp.StatusCode = 200
           /\ ~last.resp.BodyErr /\ IsRecordArray(last.resp.Body)) =>
           (~last.err /\ last.endpoints = DecodedRecords(last.resp.Body))

\* C6: NewPluginProvider returns a proxy exactly when its negotiation
\* request got a response whose Vary header is "Content-Type" and whose
\* Content-Type header is the media type; otherwise it returns an error and
\* no proxy.
C6_ProxyIffNegotiated ==
    last.op = "NewPluginProvider" =>
        /\ last.proxy <=>
              /\ last.reqs # <<>>
              /\ ~last.resp.err
              /\ last.resp.Header.Vary = "Content-Type"
              /\ last.resp.Header.ContentType = "application/external.dns.plugin+json;version=1"
        /\ last.err <=> ~last.proxy
        /\ p.isNil <=> ~last.proxy

\* C6 witness: a construction that fails on the Content-Type header alone.
C6_Witness ==
    /\ last.op = "NewPluginProvider"
    /\ ~last.resp.err /\ last.reqs # <<>>
    /\ last.resp.Header.Vary = "Content-Type"
    /\ last.resp.Header.ContentType = "text/plain; charset=utf-8"
    /\ last.err /\ ~last.proxy /\ p.isNil

\* C7: a business request is sent only by a proxy whose construction sent a
\* negotiation request that was answered with both expected headers.
C7_NegotiatedBeforeBusiness ==
    (~p.isNil \/ (last.op \in BusinessOps /\ last.reqs # <<>>)) =>
        /\ handshake.done
        /\ handshake.vary = "Content-Type"
        /\ handshake.contentType = "application/external.dns.plugin+json;version=1"

\* C7 witness: a business request has been sent.
C7_Witness ==
    /\ last.op = "AdjustEndpoints"
    /\ Len(last.reqs) = 1 /\ last.reqs[1].URL.Path = <<"adjustendpoints">>
    /\ handshake.done

\* C8: the root handler answers every request, whatever its method and
\* body, with status 200, Vary: Content-Type, the media type as Content-Type
\* and an empty body, and does not invoke the wrapped provider.
C8_NegotiateAnswer ==
    srv.handler = "negotiate" =>
        /\ ~srv.resp.err
        /\ srv.resp.StatusCode = 200
        /\ srv.resp.Header.Vary = "Content-Type"
        /\ srv.resp.Header.ContentType = "application/external.dns.plugin+json;version=1"
        /\ srv.resp.Body = JEmpty
        /\ srv.invoked = <<>>

\* C8 witness: a POST with a malformed body on a path that only the root
\* pattern matches.
C8_Witness ==
    /\ srv.handler = "negotiate"
    /\ srv.Method = "POST"
    /\ srv.Body = JMalformed
    /\ srv.Path = <<"propertiesvaluesequal">>
    /\ srv.resp.StatusCode = 200

\* C9: every call of Records, ApplyChanges, PropertyValuesEqual or
\* AdjustEndpoints sends exactly one request, also when it fails.
C9_OneRequestPerCall ==
    last.op \in BusinessOps => Len(last.reqs) = 1

\* C9 witness: a Records call that failed on a 500 response sent one request.
C9_Witness ==
    /\ last.op = "Records" /\ last.err
    /\ ~last.resp.err /\ last.resp.StatusCode = 500
    /\ Len(last.reqs) = 1

\* the call took a failure branch: an error for Records and ApplyChanges,
\* the local default after a failed step for the two others
FailureBranch(c) ==
    CASE c.op \in {"Records", "ApplyChanges"} -> c.err
      [] c.op = "PropertyValuesEqual" -> CompareFailed(c)
      [] c.op = "AdjustEndpoints" -> ArrayFailed(c)
      [] OTHER -> FALSE

\* the gauge of an operation in a tuple of the four gauges
GaugeIndex(op) ==
    CASE op = "Records" -> 1
      [] op = "ApplyChanges" -> 2
      [] op = "PropertyValuesEqual" -> 3
      [] op = "AdjustEndpoints" -> 4

\* C10: a call that ends on a failure branch raises the gauge of its
\* operation by exactly one and leaves the three others alone; a successful
\* call leaves all four alone.  PropertyValuesEqual of two equal values
\* against an unreachable server returns true and raises the compare gauge.
C10_FailureCounted ==
    last.op \in BusinessOps =>
        /\ \A i \in 1..4 :
              gauges[i] = last.before[i]
                  + (IF i = GaugeIndex(last.op) /\ FailureBranch(last) THEN 1 ELSE 0)
        /\ (last.op = "PropertyValuesEqual" /\ last.resp.err
               /\ last.pve.Previous = last.pve.Current) => last.equals

\* C10 witness: PropertyValuesEqual("ttl", "300", "300") against an
\* unreachable server.
C10_Witness ==
    /\ last.op = "PropertyValuesEqual"
    /\ last.pve = PropertyValuesEqualsRequest("ttl", "300", "300")
    /\ last.resp.err
    /\ last.equals
    /\ propertyValuesEqualErrorsGauge = last.before[3] + 1

\* C11: against the adapter and without a transport failure, the proxy's
\* PropertyValuesEqual returns what the wrapped provider's
\* PropertyValuesEqual returns, and the compare gauge keeps its value.
C11_CompareThroughAdapter ==
    (last.op = "PropertyValuesEqual" /\ ~last.resp.err) =>
        /\ last.equals = srv.prov.equals
        /\ propertyValuesEqualErrorsGauge = last.before[3]

\* C12: against the adapter and without a transport failure, the proxy's
\* AdjustEndpoints returns the sequence the wrapped provider's
\* AdjustEndpoints returns, in its order, and the adjust gauge keeps its
\* value.
C12_AdjustThroughAdapter ==
    (last.op = "AdjustEndpoints" /\ ~last.resp.err) =>
        /\ last.endpoints = srv.prov.adjusted
        /\ adjustEndpointsErrorsGauge = last.before[4]

\* C13: against the adapter and without a transport failure, the proxy's
\* Records fails exactly when the wrapped provider's Records fails, and
\* otherwise returns the provider's records, element for element.
C13_RecordsThroughAdapter ==
    (last.op = "Records" /\ ~last.resp.err) =>
        /\ last.err <=> srv.prov.recordsErr
        /\ ~last.err => last.endpoints = srv.prov.records

\* C13 witness: the provider returns two records, b before a, and the
\* proxy returns them in that order.
C13_Witness ==
    /\ last.op = "Records"
    /\ ~last.resp.err
    /\ srv.handler = "records"
    /\ srv.invoked = <<Invocation("Records", NoPve, NilSlice, NilChanges)>>
    /\ srv.prov.records = Slice(<<EpB, EpA>>)
    /\ last.endpoints = Slice(<<EpB, EpA>>)
    /\ ~last.err

\* the slice a body that decodes as records decodes to: nil for null
RecordsOf(b) == IF b.kind = "null" THEN NilSlice ELSE DecodedRecords(b)

\* the result of a business call is the one its arguments and the response
\* to its own request determine
DeterminedByCall(c) ==
    CASE c.op = "Records" ->
            /\ c.err <=> ArrayFailed(c)
            /\ c.endpoints = IF c.err THEN NilSlice ELSE RecordsOf(c.resp.Body)
      [] c.op = "ApplyChanges" ->
            c.err <=> (c.resp.err \/ c.resp.StatusCode # 200)
      [] c.op = "PropertyValuesEqual" ->
            c.equals = IF CompareFailed(c)
                       THEN c.pve.Previous = c.pve.Current
                       ELSE DecodedEquals(c.resp.Body)
      [] c.op = "AdjustEndpoints" ->
            c.endpoints = IF ArrayFailed(c) THEN c.e ELSE RecordsOf(c.resp.Body)
      [] OTHER -> TRUE

\* C19: no call changes the base URL or the client of a built proxy, and
\* the result of every call is determined by its arguments and the response
\* to its own request, whatever the calls before it did.
C19_NoBusinessState ==
    [][ /\ ~p.isNil => p' = p
        /\ DeterminedByCall(last') ]_vars

\* C19 witness: a Records call succeeds right after a Records call failed,
\* on the proxy NewPluginProvider built.
C19_Witness ==
    /\ p = PluginProvider("http.Client", ParseURL(GoodURL).url)
    /\ prev.op = "Records" /\ prev.err
    /\ last.op = "Records" /\ ~last.err
    /\ last.endpoints = Slice(<<EpA, EpB>>)
    /\ recordsErrorsGauge > 0

\* the request bodies the decoder of a route refuses: json's Decode returns
\* an error on an empty body, on bytes that are not JSON and on a JSON value
\* of another type than the target (an array for an object, an object for
\* an array)
Undecodable(route, b) ==
    IF route = "adjustendpoints"
    THEN b.kind \notin {"array", "null"}
    ELSE b.kind \in {"empty", "malformed", "array"}

BusinessRoutes == {"records", "propertyvaluesequal", "adjustendpoints"}

\* C14: a POST on one of the three routes whose body the decoder refuses is
\* answered with status 400 and an empty body, and the wrapped provider is
\* not invoked.
C14_UndecodableBody ==
    (/\ srv.server = "HTTPProvider"
     /\ srv.handler \in BusinessRoutes
     /\ srv.Method = "POST"
     /\ Undecodable(srv.handler, srv.Body)) =>
        /\ srv.resp.StatusCode = 400
        /\ srv.resp.Body = JEmpty
        /\ srv.invoked = <<>>

\* C14 witness: POST /records with bytes that are not JSON, in front of a
\* provider whose ApplyChanges would succeed.
C14_Witness ==
    /\ srv.server = "HTTPProvider"
    /\ srv.handler = "records"
    /\ srv.Method = "POST"
    /\ srv.Body = JMalformed
    /\ ~srv.prov.applyErr
    /\ srv.resp.StatusCode = 400

\* C15: GET /records and POST /records with a body that decodes answer 500
\* with an empty body when the provider's Records or ApplyChanges fails,
\* and 200 when it succeeds.
C15_RecordsStatus ==
    (/\ srv.server = "HTTPProvider"
     /\ srv.handler = "records"
     /\ \/ srv.Method = "GET"
        \/ srv.Method = "POST" /\ ~Undecodable("records", srv.Body)) =>
        LET failed == IF srv.Method = "GET" THEN srv.prov.recordsErr ELSE srv.prov.applyErr
        IN  IF failed
            THEN srv.resp.StatusCode = 500 /\ srv.resp.Body = JEmpty
            ELSE srv.resp.StatusCode = 200

\* C15 witness: POST /records with a change-set, ApplyChanges fails.
C15_Witness ==
    /\ srv.server = "HTTPProvider"
    /\ srv.handler = "records"
    /\ srv.Method = "POST"
    /\ srv.Body = JChanges(Changes(<<EpA>>, <<EpB>>, <<EpB>>, <<>>))
    /\ srv.prov.applyErr
    /\ srv.invoked # <<>>
    /\ srv.resp.StatusCode = 500

\* the methods a route supports
SupportedMethods(route) == IF route = "records" THEN {"GET", "POST"} ELSE {"POST"}

\* C16: a request whose method the route does not support is answered with
\* status 400 and the wrapped provider is not invoked.
C16_WrongMethod ==
    (/\ srv.server = "HTTPProvider"
     /\ srv.handler \in BusinessRoutes
     /\ srv.Method \notin SupportedMethods(srv.handler)) =>
        /\ srv.resp.StatusCode = 400
        /\ srv.invoked = <<>>

\* C16 witness: PUT /adjustendpoints with a body that would decode.
C16_Witness ==
    /\ srv.server = "HTTPProvider"
    /\ srv.handler = "adjustendpoints"
    /\ srv.Method = "PUT"
    /\ srv.Body = JArray(<<WireEndpoint(EpA)>>)
    /\ srv.resp.StatusCode = 400

\* C17: POST /records with a change-set whose UpdateOld and UpdateNew differ
\* in length is answered with status 400, and ApplyChanges is never invoked
\* with such a change-set.
C17_MismatchedUpdatesRejected ==
    /\ (/\ srv.server = "HTTPProvider"
        /\ srv.handler = "records"
        /\ srv.Method = "POST"
        /\ srv.Body.kind = "changes"
        /\ Len(srv.Body.chg.UpdateOld) # Len(srv.Body.chg.UpdateNew)) =>
            srv.resp.StatusCode = 400
    /\ \A i \in 1..Len(srv.invoked) :
          srv.invoked[i].op = "ApplyChanges" =>
              Len(srv.invoked[i].changes.UpdateOld) = Len(srv.invoked[i].changes.UpdateNew)

\* C18: a Records or ApplyChanges call whose context was cancelled while
\* its request was in flight returns an error.
C18_CancelledCallFails ==
    (inflight.state = "returned" /\ inflight.cancelled) =>
        (last.op = inflight.op /\ last.err)

\* C20: every 200 response of the adapter that carries a JSON body has the
\* Content-Type application/json.
C20_JsonContentType ==
    (/\ srv.server = "HTTPProvider"
     /\ srv.handler \in BusinessRoutes
     /\ srv.resp.StatusCode = 200
     /\ srv.resp.Body # JEmpty) =>
        srv.resp.Header.ContentType = "application/json"

\* C21: GetDomainFilter returns the empty domain filter in every state of
\* the proxy, sends no request and leaves the four gauges alone.
C21_PermissiveFilter ==
    last.op = "GetDomainFilter" =>
        /\ last.filter = [isNil |-> FALSE, Filters |-> <<>>, exclude |-> <<>>]
        /\ last.reqs = <<>>
        /\ gauges = last.before

\* C21 witness: GetDomainFilter right after a Records call that failed.
C21_Witness ==
    /\ last.op = "GetDomainFilter"
    /\ prev.op = "Records" /\ prev.err
    /\ recordsErrorsGauge > 0
    /\ ~last.filter.isNil

\* C22: a POST on the records route whose body decodes makes the adapter
\* call ApplyChanges exactly once, with the decoded change-set, and the
\* status is 200 exactly when that call returned no error.
C22_AppliesOnce ==
    (/\ srv.handler = "records"
     /\ srv.Method = "POST"
     /\ ~Undecodable("records", srv.Body)) =>
        /\ srv.invoked = <<Invocation("ApplyChanges", NoPve, NilSlice,
                                       DecodeChanges(srv.Body).val)>>
        /\ srv.resp.StatusCode = 200 <=> ~srv.prov.applyErr

\* C23: a call changes no gauge but the one of its own operation; the
\* construction of the proxy and GetDomainFilter have none and change none.
C23_OwnCounterOnly ==
    last.op # "none" =>
        \A i \in 1..4 :
            (last.op \notin BusinessOps \/ i # GaugeIndex(last.op)) =>
                gauges[i] = last.before[i]

\* C24: the started signal is sent only while the port is bound and before
\* serving begins: never after a failed bind, and whoever has received it
\* in the running process finds the port bound.
C24_SignalAfterBind ==
    [][ /\ (~start.sent /\ start'.sent) =>
              (start.bound /\ start'.bound /\ start.pc = "signal" /\ start'.pc = "serve")
        /\ start'.bindFailed => ~start'.sent
        /\ (start'.received /\ start'.pc # "exited") => start'.bound ]_vars

\* C24 witness: the observer has received the signal of StartAWSPluginProvider
\* from an unbuffered channel and the server is serving on the bound port.
C24_Witness ==
    /\ start.fn = "StartAWSPluginProvider"
    /\ start.chan = "unbuffered"
    /\ start.sent /\ start.received
    /\ start.bound
    /\ start.pc = "serving"

\* C25: a start function called with a nil channel whose listener is bound
\* is never blocked at the signal: it can always take its next step towards
\* serving.
C25_NilChannelNeverBlocks ==
    (start.chan = "nil" /\ start.bound /\ start.pc = "signal") =>
        \/ start.fn = "StartHTTPApi" /\ StartHTTPApi(start).pc = "serve"
        \/ start.fn = "StartAWSPluginProvider" /\ StartAWSPluginProvider(start).pc = "serve"

\* the concurrent calls of the operation with gauge i that have ended on a
\* failure branch
FailedCalls(i) ==
    {t \in Threads : /\ running[t].pc = "done"
                     /\ GaugeIndex(running[t].call.op) = i
                     /\ FailureBranch(running[t].call)}

\* C26: under every interleaving of the concurrent calls each gauge stands
\* higher than when the proxy was built by exactly the number of failed
\* calls of its operation, and every failed call has returned the default
\* of its own arguments.
C26_NoLostIncrement ==
    ~p.isNil =>
        /\ \A i \in 1..4 : gauges[i] = last.before[i] + Cardinality(FailedCalls(i))
        /\ \A t \in Threads :
              LET c == running[t].call
              IN  (running[t].pc = "done" /\ FailureBranch(c)) =>
                      /\ c.op = "PropertyValuesEqual" => c.equals = (c.pve.Previous = c.pve.Current)
                      /\ c.op = "AdjustEndpoints" => c.endpoints = c.e

\* C26 witness: every goroutine has run PropertyValuesEqual while the
\* others were running it, all have failed, two of them with different
\* defaults, and the compare gauge stands higher by their number.
C26_Witness ==
    /\ ~p.isNil
    /\ \A t \in Threads :
          /\ running[t].pc = "done"
          /\ running[t].call.op = "PropertyValuesEqual"
          /\ FailureBranch(running[t].call)
    /\ running[1].raced /\ running[1].call.equals /\ ~running[2].call.equals
    /\ propertyValuesEqualErrorsGauge = last.before[3] + Cardinality(Threads)

====
